---- MODULE Spec2Model ----
(***************************************************************************)
(* EduSpider: the crawl engine of crawler.py over the store of db.py.      *)
(*                                                                         *)
(* A URL is the record urlparse makes of it: scheme, host labels (netloc   *)
(* split at "."), path segments (the path split at "/", so that the path   *)
(* string is the concatenation of "/" \o seg over the segments: <<>> is    *)
(* the empty path, <<"">> is "/", <<"p","">> is "/p/") and fragment.  A    *)
(* segment may carry ";" and params, as in "p;s"; urlparse takes the params *)
(* off the last segment and urlunparse puts them back when they are not    *)
(* empty.  The query is carried verbatim by normalize_url and is left out. *)
(* Time is counted in ticks, TicksPerSecond of them to a second.           *)
(***************************************************************************)
EXTENDS Integers, Sequences, FiniteSets, TLC

\* ------------------------------------------------------------- bounds
MaxDepth == 2          \* largest --depth given on the command line
MaxLinks == 2          \* most anchors on one fetched page
MaxRuns == 2           \* crawl runs against one database file
MaxOther == 1          \* save_page calls made by a second crawler process
TicksPerSecond == 2    \* clock resolution
MaxCalls == 3          \* calls of rate_limit made on its own
MaxCat == 2            \* (page, category) pairs the categorizer saves

\* ------------------------------------------------------------ strings
\* str.lower() on the strings of the model.
Lower(s) ==
  CASE s = "A" -> "a"
    [] s = "EDU" -> "edu"
    [] s = "LOGIN" -> "login"
    [] s = "PAPER.PDF" -> "paper.pdf"
    [] s = "Sun" -> "sun"
    [] OTHER -> s

LowerAll(q) == [i \in 1..Len(q) |-> Lower(q[i])]

\* The text after the last "." of a path segment, with the dot ("" if none).
Suffix(s) ==
  CASE s = "paper.pdf" -> ".pdf"
    [] s = "logo.png" -> ".png"
    [] s = "index.html" -> ".html"
    [] OTHER -> ""

ALLOWED_TLDS == {"edu", "org", "gov"}

SKIP_EXTENSIONS ==
  {".pdf", ".jpg", ".jpeg", ".png", ".gif", ".svg", ".mp4", ".mp3", ".doc",
   ".docx", ".xls", ".xlsx", ".ppt", ".pptx", ".zip", ".tar", ".gz"}

\* The alternatives of SKIP_PATH_PATTERNS, /(login|...)/ with re.I.
SKIP_PATH_WORDS ==
  {"login", "signin", "auth", "logout", "signup", "register", "account", "sso"}

\* ---------------------------------------------------------------- URLs
URL(s, h, p, f) == [scheme |-> s, host |-> h, path |-> p, frag |-> f]

\* str.rstrip("/") on a path: the trailing empty segments go.
RECURSIVE rstrip(_)
rstrip(p) ==
  IF p # <<>> /\ p[Len(p)] = "" THEN rstrip(SubSeq(p, 1, Len(p) - 1)) ELSE p

\* A segment with ";" in it: the text before the first ";" and after it.
HasParams(s) == s \in {"p;", ";s", "p;s"}

NameOf(s) ==
  CASE s = "p;" -> "p"
    [] s = ";s" -> ""
    [] s = "p;s" -> "p"
    [] OTHER -> s

ParamsOf(s) ==
  CASE s = ";s" -> "s"
    [] s = "p;s" -> "s"
    [] OTHER -> ""

\* name ";" params, as urlunparse writes it.
Join(name, params) ==
  CASE name = "p" /\ params = "s" -> "p;s"
    [] name = "" /\ params = "s" -> ";s"
    [] OTHER -> name

\* urlparse: the params of the last segment are split off, for the schemes
\* that take params (mailto does not).
SplitsParams(u) ==
  /\ u.scheme # "mailto"
  /\ u.path # <<>>
  /\ HasParams(u.path[Len(u.path)])

parsed_path(u) ==
  IF SplitsParams(u) THEN [u.path EXCEPT ![Len(u.path)] = NameOf(@)] ELSE u.path

parsed_params(u) ==
  IF SplitsParams(u) THEN ParamsOf(u.path[Len(u.path)]) ELSE ""

normalize_url(u) ==
  LET stripped == rstrip(parsed_path(u))
      path == IF stripped = <<>> THEN <<"">> ELSE stripped
      params == parsed_params(u)
      unparsed == IF params = "" THEN path
                  ELSE [path EXCEPT ![Len(path)] = Join(@, params)]
  IN  URL(u.scheme, LowerAll(u.host), unparsed, "")

is_allowed_domain_any(u) == Len(u.host) >= 2

\* netloc.lower().endswith(".edu"): the last label is the TLD and a dot
\* stands before it.
is_allowed_domain(u) ==
  LET domain == LowerAll(u.host)
  IN  /\ Len(domain) >= 2
      /\ domain[Len(domain)] \in ALLOWED_TLDS

\* SKIP_PATH_PATTERNS.search(path): "/" word "/" occurs in the path, so the
\* word is a whole segment and another "/" follows it.
SkipPathMatch(p) ==
  \E i \in 1..Len(p) : Lower(p[i]) \in SKIP_PATH_WORDS /\ i < Len(p)

should_skip_url(u) ==
  LET path == parsed_path(u)
  IN  \/ u.scheme \notin {"http", "https"}
      \/ Len(path) > 0 /\ Suffix(Lower(path[Len(path)])) \in SKIP_EXTENSIONS
      \/ SkipPathMatch(path)

\* parsed.netloc of a normalized URL: the key of both politeness caches.
Domain(u) == LowerAll(u.host)

\* ------------------------------------------------------- the modelled web
\* Absolute URLs as parse_page's urljoin yields them.
LinkPool ==
  { URL("https", <<"a", "edu">>, <<"p">>, ""),
    URL("https", <<"A", "EDU">>, <<"p", "">>, "top"),
    URL("https", <<"a", "edu">>, <<"q">>, ""),
    URL("https", <<"b", "com">>, <<"x">>, "") }

LinkSets == { S \in SUBSET LinkPool : Cardinality(S) <= MaxLinks }

\* Pages with at most one anchor.
ChainSets == { S \in SUBSET LinkPool : Cardinality(S) <= 1 }

Titles == {"Sun"}

\* What fetch_page gives: an exception (network error, timeout, non-2xx),
\* None (Content-Type is not text/html), or the page parse_page reads.
FetchOutcomes(sets) ==
  [kind : {"error", "nonhtml"}, title : {""}, links : {{}}]
    \cup [kind : {"html"}, title : Titles, links : sets]

\* Anchors the link filter is there for: an authentication page, a file
\* that is not HTML, a mail address, and a page like any other.
SkipPool ==
  { URL("https", <<"a", "edu">>, <<"login", "">>, ""),
    URL("https", <<"a", "edu">>, <<"paper.pdf">>, ""),
    URL("mailto", <<>>, <<"x">>, ""),
    URL("https", <<"a", "edu">>, <<"p">>, "") }

SkipSets == { S \in SUBSET SkipPool : Cardinality(S) <= MaxLinks }

\* The seed as given on the command line; scheme "" is a seed typed
\* without "http://" or "https://".
SeedArgs ==
  { URL("", <<"A", "edu">>, <<>>, ""),
    URL("https", <<"b", "com">>, <<>>, "") }

\* The same, and a seed that is one of the site's inner pages.
SeedArgsRuns == SeedArgs \cup { URL("http", <<"a", "edu">>, <<"p", "">>, "") }

\* URLs as a caller may hand them to normalize_url and should_skip_url.
FnSchemes == {"", "https", "mailto"}
FnHosts == { <<>>, <<"A", "EDU">> }
FnPaths ==
  { <<>>, <<"">>, <<"p">>, <<"p", "">>, <<"p", "", "">>,
    <<"login">>, <<"login", "">>, <<"LOGIN", "x">>, <<"x", "login">>,
    <<"loginx", "">>, <<"paper.pdf">>, <<"PAPER.PDF">>, <<"paper.pdf", "">>,
    <<"index.html">>, <<"p;", "">>, <<"p", ";s", "">>, <<"p;s">> }
FnFrags == {"", "top"}
FnURLs ==
  { URL(s, h, p, f) : s \in FnSchemes, h \in FnHosts, p \in FnPaths, f \in FnFrags }

\* ------------------------------------------------------------- state
VARIABLES
  mpc,                \* where main() stands
  args,               \* main: seed_url and args.depth
  crawl_id,           \* main: the job id create_crawl returned
  pages_found,        \* main: the value crawl returned
  stack,              \* the frames of crawl(), innermost last
  visited,            \* the visited set shared by the frames of one crawl
  pages,              \* table pages of the store
  crawls,             \* table crawls of the store, by id
  last_request_time,  \* _last_request_time: domain -> tick
  robots_cache,       \* _robots_cache: domain -> RobotFileParser
  now,                \* time.time(), in ticks
  reqlog,             \* history: the HTTP requests this process has issued
  trace,              \* history: what the current crawl has done, in order
  passed,             \* history: the links the current crawl has passed over
  runs,               \* number of main() runs started
  others,             \* number of save_page calls of the second process
  topics,             \* table topics of the store
  page_topics,        \* table page_topics of the store
  topic_seq,          \* sqlite_sequence of topics: the largest id ever given
  cat,                \* the categorizer process: where its main() stands
  fin,                \* the argument of a function called on its own
  fout                \* what that call returned

vars ==
  << mpc, args, crawl_id, pages_found, stack, visited, pages, crawls,
     last_request_time, robots_cache, now, reqlog, trace, passed, runs,
     others, topics, page_topics, topic_seq, cat, fin, fout >>

\* The topic tables, and what the crawler never touches.
tvars == << topics, page_topics, topic_seq >>
xvars == << cat, fin, fout >>

NoJob == 0
OtherJob == 99

InitBut(u) ==
  /\ mpc = "idle"
  /\ args = [seed_url |-> URL("", <<>>, <<>>, ""), depth |-> 0]
  /\ crawl_id = NoJob
  /\ pages_found = 0
  /\ stack = <<>>
  /\ visited = {}
  /\ pages = {}
  /\ crawls = <<>>
  /\ last_request_time = <<>>
  /\ robots_cache = <<>>
  /\ now = TicksPerSecond
  /\ reqlog = <<>>
  /\ trace = <<>>
  /\ passed = {}
  /\ runs = 0
  /\ others = 0
  /\ topics = {}
  /\ page_topics = {}
  /\ topic_seq = 0
  /\ cat = [pc |-> "idle", calls |-> 0, page_id |-> 0, topic_id |-> 0,
            caught |-> FALSE]
  /\ fin = u
  /\ fout = <<>>

Init == InitBut(URL("", <<>>, <<>>, ""))

\* ------------------------------------------------------------- db.py
page_exists_never(url) == FALSE

\* SELECT id FROM pages WHERE url = ?
page_exists(url) == \E p \in pages : p.url = url

save_page_replaces(url, title, domain, depth, job) ==
  { p \in pages : p.url # url }
    \cup { [id |-> Cardinality(pages) + 1, url |-> url, title |-> title,
            domain |-> domain, crawl_depth |-> depth, crawl_id |-> job] }

\* INSERT INTO pages under url UNIQUE: the table after the statement.  The
\* row is refused (IntegrityError, save_page returns None) when the url is
\* already there.
save_page(url, title, domain, depth, job) ==
  IF \E p \in pages : p.url = url
  THEN pages
  ELSE pages \cup { [id |-> Cardinality(pages) + 1, url |-> url,
                     title |-> title, domain |-> domain,
                     crawl_depth |-> depth, crawl_id |-> job] }

\* INSERT INTO crawls: the new row, status 'running', pages_found 0.  The
\* columns seed_url, max_depth and started_at are written here and never
\* read or written again by the crawler; the rows keep the two columns
\* finish_crawl updates.
create_crawl(seed_url, depth) ==
  Append(crawls, [pages_found |-> 0, status |-> "running"])

\* UPDATE crawls SET pages_found = ?, status = ? WHERE id = ?
finish_crawl(id, count, status) ==
  [crawls EXCEPT ![id].pages_found = count, ![id].status = status]

\* SELECT COUNT(*) FROM pages WHERE crawl_id = ?
CountPages(job) == Cardinality({ p \in pages : p.crawl_id = job })

\* get_or_create_topic: the id it returns, the row found by name or the next
\* AUTOINCREMENT id, which is never one that was given before.
topic_id_of(name) ==
  IF \E t \in topics : t.name = name
  THEN (CHOOSE t \in topics : t.name = name).id
  ELSE topic_seq + 1

\* get_or_create_topic: table topics and its sequence after the call.
get_or_create_topic(name) ==
  IF \E t \in topics : t.name = name
  THEN << topics, topic_seq >>
  ELSE << topics \cup { [id |-> topic_seq + 1, name |-> name] }, topic_seq + 1 >>

link_page_topic_unchecked(page_id, topic_id) ==
  page_topics \cup { [page_id |-> page_id, topic_id |-> topic_id] }

\* link_page_topic: table page_topics after the call.  The INSERT raises
\* IntegrityError, which the function swallows, when the pair is already
\* there (PRIMARY KEY) or when, foreign_keys being ON (get_conn), the page
\* or the topic is not in the store.
link_page_topic(page_id, topic_id) ==
  IF /\ \E p \in pages : p.id = page_id
     /\ \E t \in topics : t.id = topic_id
     /\ [page_id |-> page_id, topic_id |-> topic_id] \notin page_topics
  THEN page_topics \cup { [page_id |-> page_id, topic_id |-> topic_id] }
  ELSE page_topics

\* ------------------------------------------------- politeness (37-59)
\* RobotFileParser as check_robots leaves it: read() got a body (parse sets
\* last_checked; disallowed is the set of paths its rules refuse to
\* USER_AGENT), an HTTP error status, or raised (URLError, timeout, decode
\* error), which the except clause swallows.
RobotsOutcomes ==
  [kind : {"body"}, disallowed : { {}, { <<"p">> } }]
    \cup [kind : {"http403", "http404", "http500", "raised"}, disallowed : {{}}]

RobotFileParser(o) ==
  [ disallow_all |-> o.kind = "http403",
    allow_all |-> o.kind = "http404",
    last_checked |-> o.kind = "body",
    disallowed |-> o.disallowed ]

can_fetch(rp, url) ==
  IF rp.disallow_all THEN FALSE
  ELSE IF rp.allow_all THEN TRUE
  ELSE IF ~rp.last_checked THEN FALSE
  ELSE url.path \notin rp.disallowed

WaitAnyDomain(domain) ==
  LET last == IF \E d \in DOMAIN last_request_time : last_request_time[d] > 0
              THEN CHOOSE t \in { last_request_time[d] : d \in DOMAIN last_request_time } :
                     \A d \in DOMAIN last_request_time : last_request_time[d] <= t
              ELSE 0
      wait == TicksPerSecond - (now - last)
  IN  IF wait > 0 THEN wait ELSE 0

\* rate_limit: how long the call sleeps.
Wait(domain) ==
  LET last == IF domain \in DOMAIN last_request_time
              THEN last_request_time[domain] ELSE 0
      wait == TicksPerSecond - (now - last)
  IN  IF wait > 0 THEN wait ELSE 0

\* ------------------------------------------------------ crawl (152-209)
\* extract_topics (86-108) on a page whose only text is its title, a single
\* word: the word in lower case.
extract_topics(title) == IF title = "" THEN {} ELSE { Lower(title) }

Frame(url, depth) ==
  [url |-> url, depth |-> depth, pc |-> "enter", title |-> "",
   links |-> {}, found |-> 0, page_id |-> 0, todo |-> {}, topic_id |-> 0]

Top == stack[Len(stack)]

Event(ev, f, val) == [ev |-> ev, url |-> f.url, depth |-> f.depth, val |-> val]

ReturnOverwrites(v) ==
  IF Len(stack) = 1
  THEN /\ stack' = <<>>
       /\ pages_found' = v
  ELSE /\ stack' = [SubSeq(stack, 1, Len(stack) - 1) EXCEPT
                      ![Len(stack) - 1].found = v]
       /\ pages_found' = pages_found

\* `return v` of the innermost frame: the caller adds v to its pages_found
\* (line 207); the outermost call hands v to main (line 232).
Return(v) ==
  IF Len(stack) = 1
  THEN /\ stack' = <<>>
       /\ pages_found' = v
  ELSE /\ stack' = [SubSeq(stack, 1, Len(stack) - 1) EXCEPT
                      ![Len(stack) - 1].found = @ + v]
       /\ pages_found' = pages_found

Running == mpc = "crawl" /\ stack # <<>>

MarkVisitedForgets(url) == visited

\* Line 161: visited.add(url).
MarkVisited(url) == visited \cup {url}

BlockedNever(rp, url) == FALSE

\* Line 169: `if not check_robots(url)`.
Blocked(rp, url) == ~can_fetch(rp, url)

MayRecurseAlways(depth) == TRUE

MayRecurseOneMore(depth) == depth <= args.depth

\* Line 198: `if depth < max_depth`.
MayRecurse(depth) == depth < args.depth

\* Lines 153-164: normalize, the visited and depth gate, the store gate.
CrawlEnter ==
  /\ Running /\ Top.pc = "enter"
  /\ LET url == normalize_url(Top.url)
         f == [Top EXCEPT !.url = url]
     IN  IF url \in visited \/ Top.depth > args.depth
         THEN /\ Return(0)
              /\ trace' = Append(trace, Event("skip", f, 0))
              /\ UNCHANGED visited
         ELSE /\ visited' = MarkVisited(url)
              /\ IF page_exists(url)
                 THEN /\ Return(0)
                      /\ trace' = Append(trace, Event("exists", f, 0))
                 ELSE /\ stack' = [stack EXCEPT ![Len(stack)] =
                                     [f EXCEPT !.pc = "robots"]]
                      /\ trace' = Append(trace, Event("enter", f, 0))
                      /\ UNCHANGED pages_found
  /\ UNCHANGED << mpc, args, crawl_id, pages, crawls, last_request_time,
                  robots_cache, now, reqlog, passed, runs, others >>
  /\ UNCHANGED << tvars, xvars >>

Request(kind, url, result) ==
  [kind |-> kind, domain |-> Domain(url), url |-> url, t |-> now,
   result |-> result]

InCacheNever(domain) == FALSE

\* Line 49: `if domain in _robots_cache`.
InCache(domain) == domain \in DOMAIN robots_cache

\* Lines 169-171 with check_robots (46-59).
CheckRobots ==
  /\ Running /\ Top.pc = "robots"
  /\ \E o \in RobotsOutcomes :
       LET domain == Domain(Top.url)
           cached == InCache(domain)
           rp == IF cached THEN robots_cache[domain] ELSE RobotFileParser(o)
       IN  /\ cached => o = [kind |-> "http404", disallowed |-> {}]
           /\ robots_cache' = IF cached THEN robots_cache
                              ELSE (domain :> rp) @@ robots_cache
           /\ reqlog' = IF cached THEN reqlog
                        ELSE Append(reqlog, Request("robots", Top.url, o.kind))
           /\ IF Blocked(rp, Top.url)
              THEN /\ Return(0)
                   /\ trace' = Append(trace, Event("blocked", Top, 0))
              ELSE /\ stack' = [stack EXCEPT ![Len(stack)].pc = "rate"]
                   /\ UNCHANGED << pages_found, trace >>
  /\ UNCHANGED << mpc, args, crawl_id, visited, pages, crawls,
                  last_request_time, now, passed, runs, others >>
  /\ UNCHANGED << tvars, xvars >>

\* rate_limit (37-43): the sleep, which lasts over ticks longer than asked,
\* and the time recorded after it.
rate_limit(domain, over) ==
  /\ now' = now + Wait(domain) + (IF Wait(domain) > 0 THEN over ELSE 0)
  /\ last_request_time' = (domain :> now') @@ last_request_time

\* Line 173.
RateLimit ==
  /\ Running /\ Top.pc = "rate"
  /\ rate_limit(Domain(Top.url), 0)
  /\ stack' = [stack EXCEPT ![Len(stack)].pc = "fetch"]
  /\ trace' = Append(trace, Event("gate", Top, Wait(Domain(Top.url))))
  /\ UNCHANGED << mpc, args, crawl_id, pages_found, visited, pages, crawls,
                  robots_cache, reqlog, passed, runs, others >>
  /\ UNCHANGED << tvars, xvars >>

\* Lines 175-185 with fetch_page (111-118) and parse_page (121-149); the
\* request takes lat ticks and the page's anchors are one of sets.
FetchPage(lat, sets) ==
  /\ Running /\ Top.pc = "fetch"
  /\ now' = now + lat
  /\ \E o \in FetchOutcomes(sets) :
       /\ reqlog' = Append(reqlog, Request("page", Top.url, o.kind))
       /\ IF o.kind = "html"
          THEN /\ stack' = [stack EXCEPT ![Len(stack)] =
                              [Top EXCEPT !.pc = "save", !.title = o.title,
                                          !.links = o.links]]
               /\ trace' = Append(trace, Event("fetch", Top, 1))
               /\ UNCHANGED pages_found
          ELSE /\ Return(0)
               /\ trace' = Append(trace, Event("fetch", Top, 0))
  /\ UNCHANGED << mpc, args, crawl_id, visited, pages, crawls,
                  last_request_time, robots_cache, passed, runs, others >>
  /\ UNCHANGED << tvars, xvars >>

\* page_id is None (line 188): the table is as it was before the INSERT.
IsNoneNever(before, after) == FALSE

IsNone(before, after) == after = before

\* Lines 187-193.
SavePage ==
  /\ Running /\ Top.pc = "save"
  /\ pages' = save_page(Top.url, Top.title, Domain(Top.url), Top.depth, crawl_id)
  /\ IF IsNone(pages, pages')
     THEN /\ Return(0)
          /\ trace' = Append(trace, Event("dup", Top, 0))
     ELSE /\ stack' = [stack EXCEPT ![Len(stack)] =
                         [Top EXCEPT !.pc = "topics", !.found = 1,
                                     !.page_id = Cardinality(pages'),
                                     !.todo = extract_topics(Top.title)]]
          /\ trace' = Append(trace, Event("saved", Top, 1))
          /\ UNCHANGED pages_found
  /\ UNCHANGED << mpc, args, crawl_id, visited, crawls, last_request_time,
                  robots_cache, now, reqlog, passed, runs, others >>
  /\ UNCHANGED << tvars, xvars >>

\* Lines 194-195: the loop over the topics takes the next name and calls
\* get_or_create_topic; with no name left it is over.
Topics ==
  /\ Running /\ Top.pc = "topics"
  /\ IF Top.todo = {}
     THEN /\ stack' = [stack EXCEPT ![Len(stack)].pc = "links"]
          /\ UNCHANGED << topics, topic_seq >>
     ELSE \E name \in Top.todo :
            /\ stack' = [stack EXCEPT ![Len(stack)] =
                           [Top EXCEPT !.pc = "link", !.todo = @ \ {name},
                                       !.topic_id = topic_id_of(name)]]
            /\ topics' = get_or_create_topic(name)[1]
            /\ topic_seq' = get_or_create_topic(name)[2]
  /\ UNCHANGED << mpc, args, crawl_id, pages_found, visited, pages, crawls,
                  last_request_time, robots_cache, now, reqlog, trace, passed, runs,
                  others, page_topics, xvars >>

\* Line 196: link_page_topic.
LinkTopic ==
  /\ Running /\ Top.pc = "link"
  /\ page_topics' = link_page_topic(Top.page_id, Top.topic_id)
  /\ stack' = [stack EXCEPT ![Len(stack)].pc = "topics"]
  /\ UNCHANGED << mpc, args, crawl_id, pages_found, visited, pages, crawls,
                  last_request_time, robots_cache, now, reqlog, trace, passed, runs,
                  others, topics, topic_seq, xvars >>

\* Lines 194-196 when one of the two db calls raises (sqlite3.OperationalError,
\* database is locked): nothing in crawl catches it, so it leaves every
\* frame and reaches main's handler of line 242.
TopicsFail ==
  /\ Running /\ Top.pc \in {"topics", "link"}
  /\ Top.pc = "topics" => Top.todo # {}
  /\ mpc' = "err_handler"
  /\ stack' = <<>>
  /\ trace' = Append(trace, Event("topicfail", Top, Top.found))
  /\ UNCHANGED << args, crawl_id, pages_found, visited, pages, crawls,
                  last_request_time, robots_cache, now, reqlog, passed, runs,
                  others >>
  /\ UNCHANGED << tvars, xvars >>

\* Lines 198-207, one turn of the loop over the links, in the set's order.
CrawlLink ==
  /\ Running /\ Top.pc = "links"
  /\ MayRecurse(Top.depth)
  /\ \E l \in Top.links :
       LET link == normalize_url(l)
           rest == [Top EXCEPT !.links = @ \ {l}]
           sub == Frame(link, Top.depth + 1)
       IN  IF link \in visited
           THEN /\ stack' = [stack EXCEPT ![Len(stack)] = rest]
                /\ passed' = passed \cup {Event("visited", sub, 0)}
           ELSE IF should_skip_url(link)
           THEN /\ stack' = [stack EXCEPT ![Len(stack)] = rest]
                /\ passed' = passed \cup {Event("skipped", sub, 0)}
           ELSE IF ~is_allowed_domain(link)
           THEN /\ stack' = [stack EXCEPT ![Len(stack)] = rest]
                /\ passed' = passed \cup {Event("offtld", sub, 0)}
           ELSE /\ stack' = Append([stack EXCEPT ![Len(stack)] = rest], sub)
                /\ UNCHANGED passed
  /\ UNCHANGED << mpc, args, crawl_id, pages_found, visited, pages, crawls,
                  last_request_time, robots_cache, now, reqlog, trace, runs,
                  others >>
  /\ UNCHANGED << tvars, xvars >>

\* Line 209, reached when the loop is over or was not entered.
CrawlReturn ==
  /\ Running /\ Top.pc = "links"
  /\ ~MayRecurse(Top.depth) \/ Top.links = {}
  /\ Return(Top.found)
  /\ trace' = Append(trace, Event("return", Top, Top.found))
  /\ UNCHANGED << mpc, args, crawl_id, visited, pages, crawls,
                  last_request_time, robots_cache, now, reqlog, passed, runs, others >>
  /\ UNCHANGED << tvars, xvars >>

\* ------------------------------------------------------- main (212-244)
\* Lines 213-229: the arguments, the seed's scheme, the TLD gate, init_db
\* and create_crawl.
MainStart(a, d) ==
  /\ mpc = "idle"
  /\ LET seed_url == IF a.scheme \in {"http", "https"} THEN a
                     ELSE [a EXCEPT !.scheme = "https"]
     IN  /\ args' = [seed_url |-> seed_url, depth |-> d]
         /\ IF ~is_allowed_domain(seed_url)
            THEN /\ mpc' = "exit"
                 /\ UNCHANGED << crawls, crawl_id >>
            ELSE /\ mpc' = "created"
                 /\ crawls' = create_crawl(seed_url, d)
                 /\ crawl_id' = Len(crawls')
  /\ UNCHANGED << pages_found, stack, visited, pages, last_request_time,
                  robots_cache, now, reqlog, trace, passed, runs, others >>
  /\ UNCHANGED << tvars, xvars >>

\* Lines 231-232: the try block is entered and crawl is called.
MainCrawl ==
  /\ mpc = "created"
  /\ mpc' = "crawl"
  /\ stack' = << Frame(args.seed_url, 0) >>
  /\ UNCHANGED << args, crawl_id, pages_found, visited, pages, crawls,
                  last_request_time, robots_cache, now, reqlog, trace, passed, runs,
                  others >>
  /\ UNCHANGED << tvars, xvars >>

\* Line 233.
MainDone ==
  /\ mpc = "crawl" /\ stack = <<>>
  /\ crawls' = finish_crawl(crawl_id, pages_found, "done")
  /\ mpc' = "print_done"
  /\ UNCHANGED << args, crawl_id, pages_found, stack, visited, pages,
                  last_request_time, robots_cache, now, reqlog, trace, passed, runs,
                  others >>
  /\ UNCHANGED << tvars, xvars >>

\* Line 234, and main returns.
MainPrint ==
  /\ mpc = "print_done"
  /\ mpc' = "exit"
  /\ UNCHANGED << args, crawl_id, pages_found, stack, visited, pages, crawls,
                  last_request_time, robots_cache, now, reqlog, trace, passed, runs,
                  others >>
  /\ UNCHANGED << tvars, xvars >>

\* KeyboardInterrupt, raised wherever main stands when SIGINT arrives:
\* inside the try block (lines 232-234) the handler of line 235 takes it;
\* before the try block, or inside a handler, nothing does and main is left.
Interrupt ==
  /\ mpc \in {"created", "crawl", "print_done", "int_handler", "err_handler"}
  /\ mpc' = IF mpc \in {"crawl", "print_done"} THEN "int_handler" ELSE "exit"
  /\ stack' = <<>>
  /\ UNCHANGED << args, crawl_id, pages_found, visited, pages, crawls,
                  last_request_time, robots_cache, now, reqlog, trace, passed, runs,
                  others >>
  /\ UNCHANGED << tvars, xvars >>

\* Lines 235-241.
MainInterrupted ==
  /\ mpc = "int_handler"
  /\ crawls' = finish_crawl(crawl_id, CountPages(crawl_id), "interrupted")
  /\ mpc' = "exit"
  /\ UNCHANGED << args, crawl_id, pages_found, stack, visited, pages,
                  last_request_time, robots_cache, now, reqlog, trace, passed, runs,
                  others >>
  /\ UNCHANGED << tvars, xvars >>

\* Lines 242-244.
MainError ==
  /\ mpc = "err_handler"
  /\ crawls' = finish_crawl(crawl_id, 0, "error")
  /\ mpc' = "exit"
  /\ UNCHANGED << args, crawl_id, pages_found, stack, visited, pages,
                  last_request_time, robots_cache, now, reqlog, trace, passed, runs,
                  others >>
  /\ UNCHANGED << tvars, xvars >>

\* The crawler is started again on the same database file, as a new
\* process: the module's two caches start empty (lines 33-34).  No
\* timestamp of the old process is left, so the clock is counted afresh.
NewRun ==
  /\ mpc = "exit"
  /\ runs + 1 < MaxRuns
  /\ runs' = runs + 1
  /\ mpc' = "idle"
  /\ args' = [seed_url |-> URL("", <<>>, <<>>, ""), depth |-> 0]
  /\ crawl_id' = NoJob
  /\ pages_found' = 0
  /\ visited' = {}
  /\ trace' = <<>>
  /\ passed' = {}
  /\ last_request_time' = <<>>
  /\ robots_cache' = <<>>
  /\ reqlog' = <<>>
  /\ now' = TicksPerSecond
  /\ UNCHANGED << stack, pages, crawls, others >>
  /\ UNCHANGED << tvars, xvars >>

\* main is called again in the same process: the module's two caches and
\* the clock are as the last crawl left them (lines 33-34), the visited set
\* is a new one (line 154).
NewCrawl ==
  /\ mpc = "exit"
  /\ runs + 1 < MaxRuns
  /\ runs' = runs + 1
  /\ mpc' = "idle"
  /\ args' = [seed_url |-> URL("", <<>>, <<>>, ""), depth |-> 0]
  /\ crawl_id' = NoJob
  /\ pages_found' = 0
  /\ visited' = {}
  /\ trace' = <<>>
  /\ passed' = {}
  /\ UNCHANGED << stack, pages, crawls, others, last_request_time, robots_cache,
                  reqlog, now, tvars, xvars >>

\* save_page as a second crawler process on the same database file calls
\* it, for a job of its own.  This process reads table pages at two places
\* only, page_exists and save_page, so the call is placed between the two,
\* on the url this process is about to save; what the other process saved
\* before that is as if an earlier run had saved it.
OtherSave(url, depth) ==
  /\ others < MaxOther
  /\ Running /\ Top.pc = "save" /\ url = Top.url
  /\ others' = others + 1
  /\ pages' = save_page(url, "", Domain(url), depth, OtherJob)
  /\ UNCHANGED << mpc, args, crawl_id, pages_found, stack, visited, crawls,
                  last_request_time, robots_cache, now, reqlog, trace, passed, runs >>
  /\ UNCHANGED << tvars, xvars >>

Canonical == { normalize_url(l) : l \in LinkPool }

\* One step of a run started with one of seeds and one of depths, on a web
\* whose pages carry one of sets as anchors.
Step(seeds, depths, sets) ==
  \/ \E a \in seeds, d \in depths : MainStart(a, d)
  \/ MainCrawl
  \/ CrawlEnter
  \/ CheckRobots
  \/ RateLimit
  \/ FetchPage(0, sets)
  \/ SavePage
  \/ Topics
  \/ LinkTopic
  \/ TopicsFail
  \/ CrawlLink
  \/ CrawlReturn
  \/ MainDone
  \/ MainPrint
  \/ Interrupt
  \/ MainInterrupted
  \/ MainError
  \/ \E u \in Canonical : OtherSave(u, 0)

\* One run of the crawler.
Next == Step(SeedArgs, 0..MaxDepth, LinkSets)

Spec == Init /\ [][Next]_vars

\* Up to MaxRuns runs, one after the other, on the same database file,
\* each started with --depth 0 or 1 on a site whose pages carry at most one
\* anchor.
NextRuns == Step(SeedArgsRuns, {0, 1}, ChainSets) \/ NewRun

SpecRuns == Init /\ [][NextRuns]_vars

\* normalize_url called on the argument, and then on what it returned.
CallNormalize ==
  /\ mpc = "idle" /\ Len(fout) < 2
  /\ \A k \in 1..Len(fout) : fout[k].fn = "normalize_url"
  /\ LET arg == IF fout = <<>> THEN fin ELSE fout[Len(fout)].val
     IN  fout' = Append(fout, [fn |-> "normalize_url", val |-> normalize_url(arg)])
  /\ UNCHANGED << mpc, args, crawl_id, pages_found, stack, visited, pages, crawls,
                  last_request_time, robots_cache, now, reqlog, trace, passed,
                  runs, others, tvars, cat, fin >>

\* should_skip_url called on the argument.
CallShouldSkip ==
  /\ mpc = "idle" /\ fout = <<>>
  /\ fout' = << [fn |-> "should_skip_url", val |-> should_skip_url(fin)] >>
  /\ UNCHANGED << mpc, args, crawl_id, pages_found, stack, visited, pages, crawls,
                  last_request_time, robots_cache, now, reqlog, trace, passed,
                  runs, others, tvars, cat, fin >>

\* Up to MaxRuns crawls in one process, each with depth 1 on a site whose
\* pages carry at most one anchor, from the site's root.
SeedArgsSession == { URL("", <<"A", "edu">>, <<>>, "") }

NextSession == Step(SeedArgsSession, {1}, ChainSets) \/ NewCrawl

SpecSession == Init /\ [][NextSession]_vars

\* Pages with at most one anchor, or with anchors to both p and q.
CycleSets ==
  ChainSets \cup { { URL("https", <<"a", "edu">>, <<"p">>, ""),
                     URL("https", <<"a", "edu">>, <<"q">>, "") } }

\* One run from the site's root with any depth up to MaxDepth, pages of
\* CycleSets (p and q may link to each other and to themselves), and
\* every call the run makes returning: no step that can be taken is put off
\* for ever.
NextTerm == Step({ URL("https", <<"a", "edu">>, <<>>, "") }, 0..MaxDepth, CycleSets)

SpecTerm == Init /\ [][NextTerm]_vars /\ WF_vars(NextTerm)

\* --------------------------------------------- categorize.py main (104-161)
\* Category names the model's answer may hold: one that is also a topic the
\* crawler extracts, one that is not.
CatNames == {"sun", "chemistry"}

crawler_vars ==
  << mpc, args, crawl_id, pages_found, stack, visited, pages, crawls,
     last_request_time, robots_cache, now, reqlog, trace, passed, runs, others >>

\* Lines 114-120: the pages are read.
CatSelect ==
  /\ cat.pc = "idle"
  /\ cat' = [cat EXCEPT !.pc = "clear"]
  /\ UNCHANGED << crawler_vars, tvars, fin, fout >>

\* Lines 124-128: both DELETEs in one transaction.  The ids of the deleted
\* topics are not given out again (AUTOINCREMENT).
CatClear ==
  /\ cat.pc = "clear"
  /\ page_topics' = {}
  /\ topics' = {}
  /\ cat' = [cat EXCEPT !.pc = "save"]
  /\ UNCHANGED << crawler_vars, topic_seq, fin, fout >>

\* Lines 148-150: the next (page_id, cat) pair of all_categories.  page_id is
\* the integer parsed from the answer: a page's id or not.
CatTopic(page_id, name) ==
  /\ cat.pc = "save"
  /\ cat.calls < MaxCat
  /\ topics' = get_or_create_topic(name)[1]
  /\ topic_seq' = get_or_create_topic(name)[2]
  /\ cat' = [cat EXCEPT !.pc = "link", !.calls = @ + 1, !.page_id = page_id,
                        !.topic_id = topic_id_of(name)]
  /\ UNCHANGED << crawler_vars, page_topics, fin, fout >>

\* Line 151: link_page_topic; caught: its except clause was entered.
CatLink ==
  /\ cat.pc = "link"
  /\ page_topics' = link_page_topic(cat.page_id, cat.topic_id)
  /\ cat' = [cat EXCEPT !.pc = "save", !.caught = (page_topics' = page_topics)]
  /\ UNCHANGED << crawler_vars, topics, topic_seq, fin, fout >>

\* Lines 153-161: all_categories is used up.
CatDone ==
  /\ cat.pc = "save"
  /\ cat' = [cat EXCEPT !.pc = "done"]
  /\ UNCHANGED << crawler_vars, tvars, fin, fout >>

\* One crawler run of depth 1 on pages with at most one anchor, and one
\* categorizer run on the same database file, in any interleaving.
NextStore ==
  \/ Step({ URL("https", <<"a", "edu">>, <<>>, "") }, {1}, ChainSets)
  \/ CatSelect
  \/ CatClear
  \/ \E page_id \in 1..(Cardinality(pages) + 1), name \in CatNames :
       CatTopic(page_id, name)
  \/ CatLink
  \/ CatDone

SpecStore == Init /\ [][NextStore]_vars

\* One run on a site whose pages carry the anchors of SkipPool.
NextSkip == Step({ URL("https", <<"a", "edu">>, <<>>, "") }, {1}, SkipSets)

SpecSkip == Init /\ [][NextSkip]_vars

\* The domains rate_limit is called for.
GateDomains == { <<"a", "edu">>, <<"b", "org">> }

\* A caller's own work between two calls of rate_limit takes time.
Elapse ==
  /\ mpc = "idle"
  /\ now < (IF fout = <<>> THEN TicksPerSecond ELSE fout[Len(fout)].ret)
             + TicksPerSecond + 1
  /\ now' = now + 1
  /\ UNCHANGED << mpc, args, crawl_id, pages_found, stack, visited, pages, crawls,
                  last_request_time, robots_cache, reqlog, trace, passed,
                  runs, others, tvars, xvars >>

\* rate_limit called on its own, in one thread.
CallRateLimit(domain, over) ==
  /\ mpc = "idle" /\ Len(fout) < MaxCalls
  /\ rate_limit(domain, over)
  /\ fout' = Append(fout, [fn |-> "rate_limit", arg |-> domain, start |-> now,
                           ret |-> now'])
  /\ UNCHANGED << mpc, args, crawl_id, pages_found, stack, visited, pages, crawls,
                  robots_cache, reqlog, trace, passed, runs, others, tvars,
                  cat, fin >>

NextGate ==
  \/ Elapse
  \/ \E d \in GateDomains, over \in 0..1 : CallRateLimit(d, over)

SpecGate == Init /\ [][NextGate]_vars

\* The two functions called on a URL, or the crawler started with that URL
\* as its seed, with --depth 0 or 1 on a site whose pages carry at most one
\* anchor.
NextFn ==
  \/ CallNormalize
  \/ CallShouldSkip
  \/ fout = <<>> /\ fin.scheme # "mailto" /\ Step({fin}, {0, 1}, ChainSets)

SpecFn == (\E u \in FnURLs : InitBut(u)) /\ [][NextFn]_vars

\* ------------------------------------------------------------ claims
Events(kinds) == { i \in 1..Len(trace) : trace[i].ev \in kinds }

\* The host's last label is one of edu, org, gov and is not the whole host.
UnderAllowedTLD(u) ==
  /\ Len(u.host) >= 2
  /\ Lower(u.host[Len(u.host)]) \in {"edu", "org", "gov"}

InStore(u) == \E p \in pages : p.url = u

\* C1: within one crawl invocation no canonical URL is fetched twice, and
\* none is entered twice: every fetch is issued for a URL in canonical
\* form, no two fetches of the run are for the same URL, and no two calls
\* get past the visited gate with the same URL, whatever became of the
\* first (saved, failed, not HTML, blocked, already stored).
C1_FetchOncePerRun ==
  /\ \A i \in Events({"fetch", "enter", "exists"}) :
       trace[i].url = normalize_url(trace[i].url)
  /\ \A i, j \in Events({"fetch"}) : trace[i].url = trace[j].url => i = j
  /\ \A i, j \in Events({"enter", "exists"}) :
       trace[i].url = trace[j].url => i = j

\* A fetch that gave no page, and later a link to the same canonical URL,
\* which the loop passes over.
C1_Witness ==
  \E i \in Events({"fetch"}), e \in passed :
    trace[i].val = 0 /\ e.ev = "visited" /\ e.url = trace[i].url

\* C2: every call of crawl, every fetch and every save happens at a depth
\* from 0 to max_depth; the depth stored with a page is the depth of the
\* call that saved it; with max_depth 0 only the seed is fetched and crawl
\* is not called for any link.
C2_DepthBounded ==
  /\ \A k \in 1..Len(stack) : stack[k].depth = k - 1 /\ k - 1 <= args.depth
  /\ \A i \in 1..Len(trace) :
       trace[i].ev \in {"enter", "gate", "fetch", "saved"} =>
         0 <= trace[i].depth /\ trace[i].depth <= args.depth
  /\ \A i \in Events({"saved"}) :
       \E p \in pages : /\ p.url = trace[i].url
                        /\ p.crawl_id = crawl_id
                        /\ p.crawl_depth = trace[i].depth
  /\ args.depth = 0 =>
       /\ Len(stack) <= 1
       /\ \A i \in Events({"fetch"}) : trace[i].url = normalize_url(args.seed_url)

\* A page saved at depth max_depth >= 1 whose links are left alone.
C2_Witness ==
  /\ Running /\ Top.pc = "links"
  /\ args.depth >= 1 /\ Top.depth = args.depth
  /\ \E l \in Top.links :
       LET link == normalize_url(l)
       IN  link \notin visited /\ UnderAllowedTLD(link)

\* C3: every page fetch of a run started from the command line is for a
\* host under .edu, .org or .gov; a seed outside the list ends main with no
\* job created and nothing requested.
C3_OnlyAllowedTLDs ==
  /\ \A i \in Events({"gate", "fetch", "saved"}) : UnderAllowedTLD(trace[i].url)
  /\ \A k \in 1..Len(reqlog) : UnderAllowedTLD(reqlog[k].url)
  /\ (mpc # "idle" /\ ~UnderAllowedTLD(args.seed_url)) =>
       /\ mpc = "exit" /\ crawl_id = NoJob
       /\ stack = <<>> /\ trace = <<>> /\ reqlog = <<>>
       /\ Len(crawls) < runs + 1

\* A fetched page gave an off-TLD link and the loop passed over it.
C3_Witness ==
  /\ Events({"fetch"}) # {}
  /\ \E e \in passed : e.ev = "offtld" /\ ~UnderAllowedTLD(e.url)

\* C4: a URL the cached robots policy of its domain refuses is neither
\* passed through the rate gate, nor fetched, nor saved; the call that
\* finds it refused returns 0 at once: no sleep, no request for the page,
\* no row, no call of crawl for a link.
C4_Refused(u) ==
  /\ Domain(u) \in DOMAIN robots_cache
  /\ ~can_fetch(robots_cache[Domain(u)], u)

C4_RefusedNext(u) ==
  /\ Domain(u) \in DOMAIN robots_cache'
  /\ ~can_fetch(robots_cache'[Domain(u)], u)

\* What a step adds to the trace.
NewEvents == { trace'[k] : k \in (Len(trace) + 1)..Len(trace') }

C4_Step ==
  /\ \A d \in DOMAIN robots_cache :
       d \in DOMAIN robots_cache' /\ robots_cache'[d] = robots_cache[d]
  /\ \A e \in NewEvents :
       e.ev \in {"gate", "fetch", "saved", "dup"} => ~C4_RefusedNext(e.url)
  /\ \A k \in (Len(reqlog) + 1)..Len(reqlog') :
       reqlog'[k].kind = "page" => ~C4_RefusedNext(reqlog'[k].url)
  /\ \A p \in pages' \ pages :
       p.crawl_id = crawl_id => ~C4_RefusedNext(p.url)
  /\ (Running /\ Top.pc = "robots" /\ C4_RefusedNext(Top.url) /\ mpc' = "crawl") =>
       /\ UNCHANGED << pages, last_request_time, now >>
       /\ \A k \in (Len(reqlog) + 1)..Len(reqlog') : reqlog'[k].kind = "robots"
       /\ stack' = SubSeq(stack, 1, Len(stack) - 1)
       /\ pages_found' = 0

C4_RobotsBlockStops == [][C4_Step]_vars

\* A link's call of crawl was refused by the cached policy and returned.
C4_Witness ==
  \E i \in Events({"blocked"}) : trace[i].depth >= 1 /\ C4_Refused(trace[i].url)

\* C5: any two HTTP requests this process has sent to one domain, the
\* robots.txt retrieval included, are at least one second apart.
C5_SameDomainSpacing ==
  \A i, j \in 1..Len(reqlog) :
    (i < j /\ reqlog[i].domain = reqlog[j].domain) =>
      reqlog[j].t - reqlog[i].t >= TicksPerSecond

\* C6: when the retrieval of a domain's robots.txt raised, the policy
\* cached for the domain allows every URL of the domain, and the crawl goes
\* on to fetch: no call is turned away as blocked by that domain's policy.
C6_RobotsFailOpen ==
  \A k \in 1..Len(reqlog) :
    (reqlog[k].kind = "robots" /\ reqlog[k].result = "raised") =>
      /\ reqlog[k].domain \in DOMAIN robots_cache
      /\ \A u \in Canonical \cup {reqlog[k].url} :
           Domain(u) = reqlog[k].domain =>
             can_fetch(robots_cache[reqlog[k].domain], u)
      /\ \A i \in Events({"blocked"}) : Domain(trace[i].url) # reqlog[k].domain

\* C7: when main is over, however it ended, the job it created is not
\* left with status running.
C7_JobFinalized ==
  (mpc = "exit" /\ crawl_id # NoJob) =>
    crawls[crawl_id].status \in {"done", "interrupted", "error"}

RECURSIVE SumFound(_)
SumFound(frames) ==
  IF frames = <<>> THEN 0
  ELSE frames[1].found + SumFound(Tail(frames))

\* C8: the counts crawl returns add up to the pages newly saved: while the
\* traversal runs, the pages_found of the open calls sum to the number of
\* rows the job owns; the value handed to main is that number; a job
\* finalized as done records that number.
C8_CountIsPagesSaved ==
  /\ mpc = "crawl" =>
       IF stack # <<>>
       THEN SumFound(stack) = CountPages(crawl_id)
       ELSE pages_found = CountPages(crawl_id)
  /\ \A id \in 1..Len(crawls) :
       crawls[id].status = "done" => crawls[id].pages_found = CountPages(id)

\* A job done with the seed and a linked page saved and another link's
\* fetch failed.
C8_Witness ==
  /\ mpc = "print_done"
  /\ crawls[crawl_id].status = "done"
  /\ crawls[crawl_id].pages_found >= 2
  /\ \E i \in Events({"fetch"}) : trace[i].val = 0

\* C9: a call of crawl whose canonical URL is already in the store returns
\* 0 at once: no robots query, no request, no sleep, and the store is as it
\* was; the URL is not fetched in that run.
C9_Step ==
  /\ \A e \in NewEvents :
       /\ e.ev = "exists" =>
            /\ InStore(e.url)
            /\ \A j \in Events({"gate", "fetch", "saved"}) : trace[j].url # e.url
       /\ e.ev \in {"gate", "fetch", "saved"} =>
            \A j \in Events({"exists"}) : trace[j].url # e.url
  /\ (Running /\ Top.pc = "enter" /\ InStore(normalize_url(Top.url))
       /\ mpc' = "crawl") =>
       /\ UNCHANGED << pages, crawls, reqlog, robots_cache, last_request_time, now >>
       /\ stack' = SubSeq(stack, 1, Len(stack) - 1)
       /\ pages_found' = 0
       /\ \E e \in NewEvents : e.ev \in {"exists", "skip"}

C9_StoredUrlNotFetched == [][C9_Step]_vars

\* A run whose seed an earlier run stored: the job is done with count 0 and
\* nothing was requested.
C9_Witness ==
  /\ mpc = "print_done" /\ runs >= 1
  /\ crawls[crawl_id].pages_found = 0
  /\ reqlog = <<>>
  /\ \E i \in Events({"exists"}) : trace[i].depth = 0

\* C10: the store never holds two pages with one canonical URL, and a row
\* of table pages, once written, stays as it is: no step of any run, and no
\* save of another process, changes or removes it.
C10_PagesUniqueAndKept ==
  [][ /\ \A p \in pages : p \in pages'
      /\ \A p \in pages' \ pages :
           \A q \in pages' : normalize_url(q.url) = normalize_url(p.url) => q = p
    ]_vars

\* Rows of two jobs in the store, and a save the store refused.
C10_Witness ==
  /\ \E p, q \in pages : p.crawl_id = 1 /\ q.crawl_id = 2
  /\ Events({"dup"}) # {}

\* C11: normalize_url is idempotent: called on what it returned, it returns
\* the same URL again; and every URL in table pages is one it leaves as it
\* is.
C11_CanonIdempotent ==
  /\ (Len(fout) = 2 /\ fout[1].fn = "normalize_url" /\ fout[2].fn = "normalize_url") =>
       fout[2].val = fout[1].val
  /\ \A p \in pages : normalize_url(p.url) = p.url

\* C15: should_skip_url(url) is true exactly when the scheme is not http or
\* https, or the lower-cased path ends with a listed extension, or some
\* segment of the path, wherever it stands, is one of the listed words in
\* any case.
C15_Expected(u) ==
  LET path == parsed_path(u)
  IN  \/ u.scheme \notin {"http", "https"}
      \/ Len(path) > 0 /\ Suffix(Lower(path[Len(path)])) \in SKIP_EXTENSIONS
      \/ \E i \in 1..Len(path) : Lower(path[i]) \in SKIP_PATH_WORDS

C15_ShouldSkipExact ==
  \A k \in 1..Len(fout) :
    fout[k].fn = "should_skip_url" => (fout[k].val <=> C15_Expected(fin))

\* C12: of the calls of rate_limit made in one thread, any two for the same
\* domain return at least one second apart; after a call the domain's
\* recorded time is the time that call returned; and a call sleeps only
\* when an earlier call for its own domain returned less than a second
\* before it started, whatever was called for other domains.
C12_RateGate ==
  /\ \A i, j \in 1..Len(fout) :
       (i < j /\ fout[i].arg = fout[j].arg) =>
         fout[j].ret - fout[i].ret >= TicksPerSecond
  /\ \A j \in 1..Len(fout) :
       /\ fout[j].arg \in DOMAIN last_request_time
       /\ (\A k \in (j + 1)..Len(fout) : fout[k].arg # fout[j].arg) =>
            last_request_time[fout[j].arg] = fout[j].ret
       /\ fout[j].ret > fout[j].start =>
            \E i \in 1..(j - 1) :
              /\ fout[i].arg = fout[j].arg
              /\ fout[j].start - fout[i].ret < TicksPerSecond

\* A call for one domain, then one for another that does not sleep, then
\* one for the first that does.
C12_Witness ==
  \E i, j, k \in 1..Len(fout) :
    /\ i < j /\ j < k
    /\ fout[i].arg = fout[k].arg /\ fout[j].arg # fout[i].arg
    /\ fout[j].ret = fout[j].start /\ fout[j].start = fout[i].ret
    /\ fout[k].ret > fout[k].start

\* C13: a job's terminal status is absorbing: once its status is done,
\* interrupted or error, no step changes its status or its page count, and
\* so the job is written once after its creation and never returns to
\* running.
C13_TerminalAbsorbing ==
  [][ \A id \in 1..Len(crawls) :
        crawls[id].status \in {"done", "interrupted", "error"} =>
          /\ id <= Len(crawls')
          /\ crawls'[id] = crawls[id]
    ]_vars

\* C14: no link extracted from a page for which should_skip_url holds (a
\* scheme other than http and https, a listed extension, an
\* authentication-like path such as /login/) reaches the rate gate or the
\* fetcher.  The seed is the site's root and no two anchors of SkipPool have
\* one normal form, so a URL gated or fetched below the seed is the normal
\* form of exactly one anchor.
C14_SkippedLinksNotFetched ==
  \A i \in Events({"gate", "fetch"}) :
    trace[i].depth >= 1 =>
      \A l \in SkipPool :
        normalize_url(l) = trace[i].url => ~should_skip_url(l)

\* C16: a failure of get_or_create_topic or link_page_topic for a page just
\* saved is not propagated: it does not take main to its error handler, the
\* job does not end with status error, and a run that is over without an
\* interrupt has a job that is done and counts the page.
C16_TopicsBestEffort ==
  Events({"topicfail"}) # {} =>
    /\ mpc # "err_handler"
    /\ crawls[crawl_id].status # "error"
    /\ crawls[crawl_id].status = "done" => crawls[crawl_id].pages_found >= 1

\* C17: when save_page finds the URL already in table pages, inserted since
\* this call's page_exists test, the call returns 0 at once: table pages is
\* as it was, no topic and no page-topic link is written, the caller's count
\* is not raised and no link of the page is followed.
C17_DuplicateStops ==
  [][ (Running /\ Top.pc = "save" /\ InStore(Top.url) /\ mpc' = "crawl"
         /\ stack' # stack) =>
        /\ UNCHANGED << pages, topics, page_topics, topic_seq >>
        /\ stack' = SubSeq(stack, 1, Len(stack) - 1)
        /\ Len(stack) = 1 => pages_found' = 0
        /\ \E e \in NewEvents : e.ev = "dup" /\ e.val = 0 /\ e.url = Top.url
    ]_vars

\* A linked page another process saved first: the job is done and counts
\* the seed alone.
C17_Witness ==
  /\ mpc = "print_done"
  /\ crawls[crawl_id].status = "done" /\ crawls[crawl_id].pages_found = 1
  /\ \E i \in Events({"dup"}) :
       /\ trace[i].depth = 1
       /\ \E p \in pages : p.url = trace[i].url /\ p.crawl_id = OtherJob
       /\ \A pt \in page_topics : \A p \in pages :
            p.id = pt.page_id => p.url # trace[i].url

\* C18: robots.txt is requested at most once per domain while the process
\* lives: a request for it is sent only for a domain with no cached policy,
\* a cached policy is the one its retrieval left, whether it succeeded or
\* failed, and it is never replaced; a query for a cached domain, in this
\* crawl or a later one, sends nothing.
C18_Step ==
  /\ \A d \in DOMAIN robots_cache :
       d \in DOMAIN robots_cache' /\ robots_cache'[d] = robots_cache[d]
  /\ \A k \in (Len(reqlog) + 1)..Len(reqlog') :
       reqlog'[k].kind = "robots" =>
         /\ reqlog'[k].domain \notin DOMAIN robots_cache
         /\ \A i \in 1..Len(reqlog) :
              reqlog[i].kind = "robots" => reqlog[i].domain # reqlog'[k].domain
         /\ reqlog'[k].domain \in DOMAIN robots_cache'
         /\ robots_cache'[reqlog'[k].domain].last_checked
               = (reqlog'[k].result = "body")
  /\ (Running /\ Top.pc = "robots" /\ Domain(Top.url) \in DOMAIN robots_cache
       /\ mpc' = "crawl") => reqlog' = reqlog
  /\ Len(reqlog') >= Len(reqlog)

C18_RobotsOncePerDomain == [][C18_Step]_vars

\* A first crawl whose robots.txt retrieval raised, and a later crawl of the
\* process turned away by the cached policy with no second retrieval.
C18_Witness ==
  /\ runs = 1 /\ Len(crawls) = 2 /\ crawls[1].status = "done"
  /\ Events({"blocked"}) # {}
  /\ Len(reqlog) = 1 /\ reqlog[1].kind = "robots" /\ reqlog[1].result = "raised"

\* C19: a top-level crawl that has started comes to its end, whatever the
\* links of the fetched pages (self-links and cycles among them) and whatever
\* max_depth; there are never more than max_depth + 1 nested crawl frames;
\* and no URL leaves the visited set while the traversal runs.
C19_Terminates ==
  /\ (mpc = "crawl") ~> (mpc # "crawl")
  /\ [](Len(stack) <= args.depth + 1)
  /\ [][mpc = "crawl" => visited \subseteq visited']_vars

\* A finished traversal with max_depth >= 1 that went down to max_depth + 1
\* frames and passed over a link to a page it had already visited.
C19_Witness ==
  /\ mpc = "print_done" /\ args.depth >= 1
  /\ \E i \in Events({"enter"}) : trace[i].depth = args.depth
  /\ \E e \in passed : e.ev = "visited"

\* C20: in every state of the store every page_topics row names the id of a
\* row of pages and the id of a row of topics, whatever the interleaving of
\* the crawler's saves, topic creations and link insertions with the
\* categorizer's clearing and relinking; and link_page_topic called with a
\* pair that is already a row changes no table and returns normally.
C20_Step ==
  /\ (cat.pc = "link" /\ cat'.pc # "link"
       /\ [page_id |-> cat.page_id, topic_id |-> cat.topic_id] \in page_topics)
        => /\ page_topics' = page_topics /\ topics' = topics /\ pages' = pages
           /\ cat'.pc = "save"
  /\ (Running /\ Top.pc = "link" /\ mpc' = "crawl" /\ stack' # stack
       /\ [page_id |-> Top.page_id, topic_id |-> Top.topic_id] \in page_topics)
        => /\ page_topics' = page_topics /\ topics' = topics /\ pages' = pages
           /\ stack'[Len(stack')].pc = "topics"

C20_TopicLinksRefer ==
  /\ [](\A r \in page_topics :
          /\ \E p \in pages : p.id = r.page_id
          /\ \E t \in topics : t.id = r.topic_id)
  /\ [][C20_Step]_vars

\* The categorizer has finished; it linked a page, and a second insert of
\* the same pair went into the except clause; the crawler holds the id of a
\* topic the categorizer deleted, its insert for it is behind it, and no row
\* carries that id.
C20_Witness ==
  /\ cat.pc = "done" /\ cat.caught /\ page_topics # {}
  /\ [page_id |-> cat.page_id, topic_id |-> cat.topic_id] \in page_topics
  /\ Running /\ Top.pc \in {"topics", "links"} /\ Top.topic_id # 0
  /\ \A t \in topics : t.id # Top.topic_id
  /\ \A r \in page_topics : r.topic_id # Top.topic_id

====
